---- MODULE Spec2Model ----
(***************************************************************************)
(* A model of the statevector engine of quantum-circuit-simulator          *)
(* (src/src/quantum_simulator/quantum_state.py, src/src/utils.py) and of   *)
(* the two demo scripts that drive it (src/demos).                         *)
(*                                                                         *)
(* Numbers.  The engine computes with complex doubles.  Every gate of the  *)
(* engine is a real matrix and every input vector used here is real, so    *)
(* the imaginary parts stay 0 and are not carried.  The real numbers that  *)
(* occur are kept exactly: an array is a record [vec, s2] that stands for  *)
(* the numbers vec[i] * sqrt(s2), where the entries of vec are elements    *)
(* a + b*sqrt(3) of Z[sqrt 3], written <<a, b>>, and s2 is a positive      *)
(* element (p + q*sqrt(3)) / d of Q(sqrt 3), written <<p, q, d>>.  The     *)
(* factor 1/sqrt(2) of the Hadamard gate and the division by a square root *)
(* in measure() change s2 only.  Rounding of doubles is not modelled.      *)
(***************************************************************************)
EXTENDS Integers, Sequences, FiniteSets, TLC

VARIABLES
    pc,         \* where the engine is: in the constructor, "ready", "raised", "nan"
    arg,        \* the statevector handed to the constructor
    length,     \* is_pow_of_2's local variable
    state,      \* self.state
    n_qubits,   \* self.n_qubits
    handed,     \* the array object the last to_numpy() returned
    alias,      \* whether self.state still names that object
    snap,       \* history: what that array held when to_numpy() returned
    last,       \* history: the last call, its arguments and its outcome
    meas,       \* history: <<i, b>> for each qubit measured since the last other call
    calls,      \* history: the number of calls made on the engine
    script,     \* the caller: "api" (any caller), "deutsch" or "teleportation"
    line,       \* the demo script's position
    case,       \* deutschs_algorithm.py: the oracle case
    Q,          \* teleportation.py: Alice's unknown qubit
    outcomes,   \* the measurement results the script has obtained
    Bob         \* teleportation.py: Bob's qubit as the script isolates it

vars == <<pc, arg, length, state, n_qubits, handed, alias, snap, last, meas,
          calls, script, line, case, Q, outcomes, Bob>>

----------------------------------------------------------------------------
(* Bounds of the model.                                                    *)

\* the largest number of qubits an engine grows to through add_qubit
MaxQubits == 3
\* the number of gate, measurement, add_qubit and to_numpy calls followed
MaxCalls == 2
\* how far outside [0, n_qubits) the qubit indices of the calls range
Slack == 1

----------------------------------------------------------------------------
(* Exact arithmetic.                                                       *)

Abs(x) == IF x < 0 THEN 0 - x ELSE x

RECURSIVE Gcd(_, _)
Gcd(a, b) == IF b = 0 THEN Abs(a) ELSE Gcd(Abs(b), Abs(a) % Abs(b))

RECURSIVE Pow2(_)
Pow2(k) == IF k <= 0 THEN 1 ELSE 2 * Pow2(k - 1)

\* Z[sqrt 3]
RZero == <<0, 0>>
RAdd(x, y) == <<x[1] + y[1], x[2] + y[2]>>
RMul(x, y) == <<x[1] * y[1] + 3 * x[2] * y[2], x[1] * y[2] + x[2] * y[1]>>
RScale(k, x) == <<k * x[1], k * x[2]>>
\* the sign of a + b*sqrt(3)
RSign(x) ==
    IF x[1] >= 0 /\ x[2] >= 0 THEN (IF x = RZero THEN 0 ELSE 1)
    ELSE IF x[1] <= 0 /\ x[2] <= 0 THEN 0 - 1
    ELSE IF x[1] > 0 THEN (IF x[1] * x[1] > 3 * x[2] * x[2] THEN 1 ELSE 0 - 1)
    ELSE (IF 3 * x[2] * x[2] > x[1] * x[1] THEN 1 ELSE 0 - 1)

\* Q(sqrt 3), in lowest terms with a positive denominator
QNorm(p, q, d) ==
    LET g == Gcd(Gcd(p, q), d)
        s == IF d < 0 THEN 0 - 1 ELSE 1
    IN  <<(s * p) \div g, (s * q) \div g, (s * d) \div g>>
QZero == <<0, 0, 1>>
QOne == <<1, 0, 1>>
QInt(k) == <<k, 0, 1>>
QFromR(x) == <<x[1], x[2], 1>>
QAdd(x, y) == QNorm(x[1] * y[3] + y[1] * x[3], x[2] * y[3] + y[2] * x[3], x[3] * y[3])
QSub(x, y) == QNorm(x[1] * y[3] - y[1] * x[3], x[2] * y[3] - y[2] * x[3], x[3] * y[3])
QMul(x, y) ==
    QNorm(x[1] * y[1] + 3 * x[2] * y[2], x[1] * y[2] + x[2] * y[1], x[3] * y[3])
\* 1 / x for x # 0
QInv(x) == QNorm(x[3] * x[1], 0 - x[3] * x[2], x[1] * x[1] - 3 * x[2] * x[2])
QDiv(x, y) == QMul(x, QInv(y))
QSign(x) == RSign(<<x[1], x[2]>>)
QLess(x, y) == QSign(QSub(x, y)) < 0
QAbs(x) == IF QSign(x) < 0 THEN QSub(QZero, x) ELSE x

RECURSIVE QSum(_, _)
\* sum(f[i] for i in S), S a set of arguments of f
QSum(f, S) ==
    IF S = {} THEN QZero
    ELSE LET i == CHOOSE j \in S : TRUE IN QAdd(f[i], QSum(f, S \ {i}))

RECURSIVE RSum(_, _)
RSum(f, S) ==
    IF S = {} THEN RZero
    ELSE LET i == CHOOSE j \in S : TRUE IN RAdd(f[i], RSum(f, S \ {i}))

----------------------------------------------------------------------------
(* Arrays.                                                                 *)

RECURSIVE GcdAll(_, _)
\* the gcd of the coefficients of vec[1..k]
GcdAll(vec, k) ==
    IF k = 0 THEN 0 ELSE Gcd(Gcd(vec[k][1], vec[k][2]), GcdAll(vec, k - 1))

\* One representative for each array value: the integer content of vec moves
\* into s2; the zero vector carries s2 = 1.
Arr(vec, s2) ==
    LET g == GcdAll(vec, Len(vec))
    IN  IF g = 0 THEN [vec |-> vec, s2 |-> QOne]
        ELSE [vec |-> [i \in 1..Len(vec) |-> <<vec[i][1] \div g, vec[i][2] \div g>>],
              s2  |-> QMul(s2, QInt(g * g))]

\* an array of integers
Ints(seq) == Arr([i \in 1..Len(seq) |-> <<seq[i], 0>>], QOne)

\* what a division of 0 by 0 leaves in every entry (numpy: nan+nanj)
NaN == [vec |-> <<>>, s2 |-> <<0, 0, 0>>]

\* no array: the engine before construction, no array handed out
None == [vec |-> <<>>, s2 |-> <<0, 0, 1>>]

----------------------------------------------------------------------------
(* Python and numpy primitives.                                            *)

RECURSIVE Bin(_)
\* the binary digits of i >= 0, most significant first ("0" for 0)
Bin(i) == IF i < 2 THEN <<i>> ELSE Append(Bin(i \div 2), i % 2)

RECURSIVE Zeros(_)
Zeros(k) == IF k <= 0 THEN <<>> ELSE <<0>> \o Zeros(k - 1)

\* format(i, f'0{width}b'): zero-padded on the left to at least width digits
Format(i, width) == LET b == Bin(i) IN Zeros(width - Len(b)) \o b

RECURSIVE Int2(_)
\* int(''.join(bits), 2)
Int2(bits) ==
    IF bits = <<>> THEN 0
    ELSE 2 * Int2(SubSeq(bits, 1, Len(bits) - 1)) + bits[Len(bits)]

\* seq[k] of a Python str or list: k < 0 counts from the end, and k outside
\* [-len, len) raises IndexError
InBounds(seq, k) == 0 - Len(seq) <= k /\ k < Len(seq)
Pos(seq, k) == IF k >= 0 THEN k + 1 ELSE Len(seq) + k + 1
At(seq, k) == seq[Pos(seq, k)]

\* round(np.log2(L)) for L >= 1: the k with 2^(k - 1/2) <= L < 2^(k + 1/2)
RoundLog2(L) ==
    CHOOSE k \in 0..L : (k = 0 \/ Pow2(2 * k - 1) <= L * L) /\ L * L < Pow2(2 * k + 1)

\* np.kron of two vectors
KronVec(a, b) ==
    [k \in 1..(Len(a) * Len(b)) |->
        RMul(a[((k - 1) \div Len(b)) + 1], b[((k - 1) % Len(b)) + 1])]

\* np.kron of two arrays
Kron(x, y) == Arr(KronVec(x.vec, y.vec), QMul(x.s2, y.s2))

\* np.kron of two matrices (a matrix: the sequence of its rows, integers)
KronMat(A, B) ==
    LET rB == Len(B)
        cB == Len(B[1])
    IN  [r \in 1..(Len(A) * rB) |->
            [c \in 1..(Len(A[1]) * cB) |->
                A[((r - 1) \div rB) + 1][((c - 1) \div cB) + 1]
                    * B[((r - 1) % rB) + 1][((c - 1) % cB) + 1]]]

\* an operator: the integer matrix m times sqrt(s2)
Op(m, s2) == [m |-> m, s2 |-> s2]

\* what a call leaves: whether it raised, and the array it computed
Ok(st) == [raised |-> FALSE, st |-> st]
Raise == [raised |-> TRUE, st |-> None]

\* operator @ st; numpy raises ValueError when the shapes do not match
MatMul(operator, st) ==
    IF Len(operator.m[1]) # Len(st.vec) THEN Raise
    ELSE Ok(Arr([r \in 1..Len(operator.m) |->
                    RSum([c \in 1..Len(st.vec) |-> RScale(operator.m[r][c], st.vec[c])],
                         1..Len(st.vec))],
                QMul(operator.s2, st.s2)))

----------------------------------------------------------------------------
(* src/src/utils.py                                                        *)

\* abs_squared of an array: np.abs(np.square(v)), entry by entry (0-based)
abs_squared(st) ==
    [i \in 0..(Len(st.vec) - 1) |-> QMul(st.s2, QFromR(RMul(st.vec[i + 1], st.vec[i + 1])))]

e_norm(st) == QSum(abs_squared(st), 0..(Len(st.vec) - 1))

\* the tolerance 1e-5 of the constructor
Tol == <<1, 0, 100000>>

\* not (abs(1 - e_norm(v)) > 1e-5)
NormOK(st) == ~QLess(Tol, QAbs(QSub(QOne, e_norm(st))))

----------------------------------------------------------------------------
(* src/src/quantum_simulator/quantum_state.py: the methods, as functions   *)
(* of self.state (st) and self.n_qubits (n).                               *)

\* get_qubit_indices(index, outcome): the basis indices whose binary string
\* holds outcome at position index (the list, as a set)
get_qubit_indices(st, n, index, outcome) ==
    {i \in 0..(Len(st.vec) - 1) : At(Format(i, n), index) = outcome}

\* prob_0 of measure(index), index in [0, n)
prob_0(st, n, index) ==
    QSum(abs_squared(st), get_qubit_indices(st, n, n - index - 1, 0))

\* The results that "0 if random() < prob_0 else 1" can give, random() being
\* any number r with 0 <= r < 1: 0 when some r is below prob_0, 1 when some
\* r is not.
results(p0) ==
    {result \in {0, 1} : IF result = 0 THEN QLess(QZero, p0) ELSE QLess(p0, QOne)}

\* measure(index), for the result drawn: the range check, the mask, and the
\* division by sqrt(sum(probs[indices])) (0/0 in every entry when that sum is 0)
measure(st, n, index, result) ==
    IF index < 0 \/ index >= n THEN Raise
    ELSE LET indices == get_qubit_indices(st, n, n - index - 1, result)
             probs   == abs_squared(st)
             total   == QSum(probs, indices)
             masked  == [i \in 1..Len(st.vec) |->
                            IF (i - 1) \in indices THEN st.vec[i] ELSE RZero]
         IN  IF total = QZero THEN Ok(NaN)
             ELSE Ok(Arr(masked, QDiv(st.s2, total)))

RECURSIVE CNOT_loop(_, _, _, _, _, _)
\* the loop of CNOT from i on, new_state being what the earlier rounds left;
\* control and target are the converted positions
CNOT_loop(st, n, control, target, i, new_state) ==
    IF i = Len(st.vec) THEN Ok(Arr(new_state, st.s2))
    ELSE LET b == Format(i, n)
         IN  IF ~InBounds(b, control) THEN Raise
             ELSE IF At(b, control) = 1
             THEN IF ~InBounds(b, target) THEN Raise
                  ELSE LET flipped == [b EXCEPT ![Pos(b, target)] =
                                          IF At(b, target) = 1 THEN 0 ELSE 1]
                           j == Int2(flipped)
                       IN  CNOT_loop(st, n, control, target, i + 1,
                               [new_state EXCEPT ![j + 1] = RAdd(@, st.vec[i + 1])])
             ELSE CNOT_loop(st, n, control, target, i + 1,
                      [new_state EXCEPT ![i + 1] = st.vec[i + 1]])

\* CNOT with control and target used as string positions, unconverted
CNOT_unconverted(st, n, control, target) ==
    CNOT_loop(st, n, control, target, 0, [i \in 1..Len(st.vec) |-> RZero])

CNOT(st, n, control, target) ==
    CNOT_loop(st, n, n - control - 1, n - target - 1, 0,
              [i \in 1..Len(st.vec) |-> RZero])

\* np.kron of two operators
KronOp(F, G) == Op(KronMat(F.m, G.m), QMul(F.s2, G.s2))

i_2 == Op(<<<<1, 0>>, <<0, 1>>>>, QOne)

RECURSIVE expand_loop(_, _, _, _, _)
\* the loop of __expand_operator from round i on
expand_loop(operator, i, n, index, operation) ==
    IF i >= n THEN operator
    ELSE expand_loop(IF i = index THEN KronOp(operator, operation)
                     ELSE KronOp(operator, i_2),
                     i + 1, n, index, operation)

\* __expand_operator(index, operation)
expand_operator(n, index, operation) ==
    expand_loop(IF index = 0 THEN operation ELSE i_2, 1, n, index, operation)

x == Op(<<<<0, 1>>, <<1, 0>>>>, QOne)
z == Op(<<<<1, 0>>, <<0, 0 - 1>>>>, QOne)
\* [[1, 1], [1, -1]] / np.sqrt(2)
h == Op(<<<<1, 1>>, <<1, 0 - 1>>>>, <<1, 0, 2>>)

\* the body the three single-qubit gates share: the index conversion, the
\* expansion and operator @ self.state
apply(st, n, index, operation) ==
    MatMul(expand_operator(n, n - index - 1, operation), st)

\* X with the index used as the position in the Kronecker product, unconverted
X_unconverted(st, n, index) == MatMul(expand_operator(n, index, x), st)

X(st, n, index) == apply(st, n, index, x)

\* Z with the matrix of the identity
Z_identity(st, n, index) == apply(st, n, index, i_2)

Z(st, n, index) == apply(st, n, index, z)

H(st, n, index) == apply(st, n, index, h)

\* add_qubit with the factors of the Kronecker product exchanged
add_qubit_swapped(st, qubit) == Kron(qubit, st)

\* add_qubit(qubit): the new self.state
add_qubit(st, qubit) == Kron(st, qubit)

RECURSIVE from_qubits_loop(_, _)
from_qubits_loop(statevector, qubits) ==
    IF qubits = <<>> THEN statevector
    ELSE from_qubits_loop(Kron(statevector, Head(qubits)), Tail(qubits))

\* from_qubits(*qubits): the vector handed to the constructor
from_qubits(qubits) == from_qubits_loop(Ints(<<1>>), qubits)

----------------------------------------------------------------------------
(* The inputs.                                                             *)

\* [1/2, sqrt(3)/2], the unknown qubit of teleportation.py
Q_demo == Arr(<<<<1, 0>>, <<0, 1>>>>, <<1, 0, 4>>)
\* [1, 1] / sqrt(2) and [1, -1] / sqrt(2)
Plus == Arr(<<<<1, 0>>, <<1, 0>>>>, <<1, 0, 2>>)
Minus == Arr(<<<<1, 0>>, <<0 - 1, 0>>>>, <<1, 0, 2>>)
\* [0.8, -0.6]
Tilted == Arr(<<<<4, 0>>, <<0 - 3, 0>>>>, <<1, 0, 25>>)

\* the vectors the constructor is tried on: lengths 0, 1, 2, 3, 4, 6 and 8, of
\* norm 1 and not
InitVectors ==
    { Ints(<<>>), Ints(<<1>>), Ints(<<1, 0>>), Ints(<<0, 1>>), Plus, Minus, Tilted,
      Ints(<<1, 1>>), Ints(<<1, 0, 0>>), Ints(<<0, 0, 1, 0>>),
      Ints(<<0, 1, 0, 0>>), Arr(Ints(<<1, 2, 3, 4>>).vec, <<1, 0, 30>>),
      Ints(<<1, 0, 0, 0, 0, 0>>), Ints(<<0, 0, 0, 1, 0, 0, 0, 0>>),
      Arr(Ints(<<1, 2, 3, 4, 5, 6, 7, 8>>).vec, <<1, 0, 204>>) }

\* the qubits and sub-states handed to add_qubit: lengths 1, 2 and 4
Qubits == { Ints(<<1>>), Ints(<<0, 1>>), Tilted, Ints(<<0, 1, 0, 0>>) }

\* the unknown qubits teleported
Unknowns == { Q_demo, Ints(<<1, 0>>), Ints(<<0, 1>>), Minus, Tilted }

\* the oracle cases handed to U_f
Cases == 0..5

\* the qubit indices handed to the gates and to measure
Indices == (0 - Slack)..(n_qubits - 1 + Slack)

----------------------------------------------------------------------------
(* The constructor (quantum_state.py 19-25) with is_pow_of_2 (utils.py     *)
(* 11-14) followed statement by statement.                                 *)

NoCall ==
    [op |-> "none", a |-> 0, b |-> 0, other |-> None, pre |-> None, pre_n |-> 0,
     result |-> 0 - 1, prev |-> 0 - 1, raised |-> FALSE, valid |-> TRUE]

Start(caller, vector, c, q) ==
    /\ pc = "while"
    /\ arg = vector
    /\ length = Len(vector.vec)
    /\ state = None
    /\ n_qubits = 0
    /\ handed = None
    /\ alias = FALSE
    /\ snap = None
    /\ last = NoCall
    /\ meas = {}
    /\ calls = 0
    /\ script = caller
    /\ line = 0
    /\ case = c
    /\ Q = q
    /\ outcomes = <<>>
    /\ Bob = None

\* while length % 2 == 0:
is_pow_of_2_while ==
    /\ pc = "while"
    /\ pc' = IF length % 2 = 0 THEN "body" ELSE "return"
    /\ UNCHANGED <<arg, length, state, n_qubits, handed, alias, snap, last, meas,
                   calls, script, line, case, Q, outcomes, Bob>>

\* length //= 2
is_pow_of_2_body ==
    /\ pc = "body"
    /\ length' = length \div 2
    /\ pc' = "while"
    /\ UNCHANGED <<arg, state, n_qubits, handed, alias, snap, last, meas,
                   calls, script, line, case, Q, outcomes, Bob>>

\* return length == 1, and the rest of __init__
init ==
    /\ pc = "return"
    /\ IF length # 1 \/ ~NormOK(arg)
       THEN /\ pc' = "raised"
            /\ last' = [NoCall EXCEPT !.op = "init", !.raised = TRUE]
            /\ UNCHANGED <<state, n_qubits, line>>
       ELSE /\ pc' = "ready"
            /\ state' = arg
            /\ n_qubits' = RoundLog2(Len(arg.vec))
            /\ last' = [NoCall EXCEPT !.op = "init"]
            /\ line' = 1
    /\ UNCHANGED <<arg, length, handed, alias, snap, meas, calls, script, case,
                   Q, outcomes, Bob>>

----------------------------------------------------------------------------
(* The calls on a constructed engine.                                      *)

\* the history of a call; valid: this call and every one before it is one of
\* X, Z, H, CNOT and measure with its qubit indices in [0, n_qubits)
Call(op, a, b, other, result, prev, raised) ==
    [op |-> op, a |-> a, b |-> b, other |-> other, pre |-> state, pre_n |-> n_qubits,
     result |-> result, prev |-> prev, raised |-> raised,
     valid |-> /\ last.valid
               /\ op \in {"X", "Z", "H", "CNOT", "measure"}
               /\ a \in 0..(n_qubits - 1)
               /\ (op = "CNOT" => b \in 0..(n_qubits - 1))]

\* A gate or add_qubit: self.state is bound to the new array res.st and
\* self.n_qubits to n, unless the call raised.
Rebind(op, a, b, other, res, n) ==
    /\ state' = IF res.raised THEN state ELSE res.st
    /\ n_qubits' = IF res.raised THEN n_qubits ELSE n
    /\ alias' = (alias /\ res.raised)
    /\ last' = Call(op, a, b, other, 0 - 1, 0 - 1, res.raised)
    /\ meas' = {}
    /\ UNCHANGED <<pc, handed, snap>>

DoX(index) == Rebind("X", index, 0, None, X(state, n_qubits, index), n_qubits)

DoZ(index) == Rebind("Z", index, 0, None, Z(state, n_qubits, index), n_qubits)

DoH(index) == Rebind("H", index, 0, None, H(state, n_qubits, index), n_qubits)

DoCNOT(control, target) ==
    Rebind("CNOT", control, target, None, CNOT(state, n_qubits, control, target),
           n_qubits)

DoAddQubit(qubit) ==
    Rebind("add_qubit", 0, 0, qubit, Ok(add_qubit(state, qubit)),
           n_qubits + RoundLog2(Len(qubit.vec)))

\* measure(index) returning result: "self.state *= mask" and "self.state /= ..."
\* write into the array self.state names, which is the array to_numpy() handed
\* out while alias holds.
DoMeasure(index, result) ==
    LET res == measure(state, n_qubits, index, result)
        prev == IF <<index, 0>> \in meas THEN 0
                ELSE IF <<index, 1>> \in meas THEN 1 ELSE 0 - 1
    IN  /\ IF res.raised THEN result = 0 - 1
           ELSE result \in results(prob_0(state, n_qubits, index))
        /\ state' = IF res.raised THEN state ELSE res.st
        /\ handed' = IF alias /\ ~res.raised THEN res.st ELSE handed
        /\ last' = Call("measure", index, 0, None, result, prev, res.raised)
        /\ meas' = IF res.raised THEN meas
                   ELSE (meas \ {<<index, 0>>, <<index, 1>>}) \cup {<<index, result>>}
        /\ pc' = IF ~res.raised /\ res.st = NaN THEN "nan" ELSE pc
        /\ UNCHANGED <<n_qubits, alias, snap>>

\* to_numpy(): return self.state
DoToNumpy ==
    /\ handed' = state
    /\ snap' = state
    /\ alias' = TRUE
    /\ last' = Call("to_numpy", 0, 0, None, 0 - 1, 0 - 1, FALSE)
    /\ meas' = {}
    /\ UNCHANGED <<pc, state, n_qubits>>

\* any caller: up to MaxCalls calls in any order, on an engine whose vector
\* is not nan
Caller == script = "api" /\ pc = "ready" /\ calls < MaxCalls

Counted ==
    /\ calls' = calls + 1
    /\ UNCHANGED <<arg, length, script, line, case, Q, outcomes, Bob>>

CallX == Caller /\ Counted /\ \E index \in Indices : DoX(index)

CallZ == Caller /\ Counted /\ \E index \in Indices : DoZ(index)

CallH == Caller /\ Counted /\ \E index \in Indices : DoH(index)

CallCNOT ==
    Caller /\ Counted /\ \E control \in Indices, target \in Indices : DoCNOT(control, target)

CallMeasure ==
    Caller /\ Counted /\ \E index \in Indices, result \in {0 - 1, 0, 1} :
        DoMeasure(index, result)

CallAddQubit ==
    /\ Caller
    /\ Counted
    /\ \E qubit \in Qubits :
        /\ n_qubits + RoundLog2(Len(qubit.vec)) <= MaxQubits
        /\ DoAddQubit(qubit)

CallToNumpy == Caller /\ Counted /\ DoToNumpy

Init == \E vector \in InitVectors : Start("api", vector, 0, None)

Next ==
    \/ is_pow_of_2_while
    \/ is_pow_of_2_body
    \/ init
    \/ CallX
    \/ CallZ
    \/ CallH
    \/ CallCNOT
    \/ CallMeasure
    \/ CallAddQubit
    \/ CallToNumpy

Spec == Init /\ [][Next]_vars

\* The interpreter runs the statement it is at: is_pow_of_2 takes the step it
\* can take.
FairSpec == Spec /\ WF_vars(is_pow_of_2_while) /\ WF_vars(is_pow_of_2_body)

----------------------------------------------------------------------------
(* src/demos/deutschs_algorithm.py, for each oracle case.                  *)

\* a statement of a script, at position l, on the constructed engine
At_(name, l) == script = name /\ pc = "ready" /\ line = l

Stepped ==
    /\ line' = line + 1
    /\ UNCHANGED <<arg, length, calls, script, case, Q>>

\* U_f with case 4 as "CNOT, then X on qubit 1"
U_f_balanced_4(st, n, c) ==
    IF c \notin {1, 2, 3, 4} THEN Raise
    ELSE LET after == IF c \in {2, 3, 4} THEN CNOT(st, n, 0, 1) ELSE Ok(st)
         IN  IF c \in {3, 4} THEN X(after.st, n, 1) ELSE after

\* U_f(q, case): the state it leaves in q
U_f(st, n, c) ==
    IF c \notin {1, 2, 3, 4} THEN Raise
    ELSE LET after == IF c \in {2, 3} THEN CNOT(st, n, 0, 1) ELSE Ok(st)
         IN  IF c \in {3, 4} THEN X(after.st, n, 1) ELSE after

\* q.H(0)
deutsch_H0 ==
    /\ At_("deutsch", 1) /\ Stepped /\ DoH(0) /\ UNCHANGED <<outcomes, Bob>>

\* q.H(1)
deutsch_H1 ==
    /\ At_("deutsch", 2) /\ Stepped /\ DoH(1) /\ UNCHANGED <<outcomes, Bob>>

\* U_f(q, case)
deutsch_U_f ==
    LET res == U_f(state, n_qubits, case)
    IN  /\ script = "deutsch" /\ pc = "ready" /\ line = 3
        /\ state' = IF res.raised THEN state ELSE res.st
        /\ alias' = (alias /\ case \notin {2, 3, 4})
        /\ last' = Call("U_f", case, 0, None, 0 - 1, 0 - 1, res.raised)
        /\ meas' = {}
        /\ pc' = IF res.raised THEN "raised" ELSE pc
        /\ line' = IF res.raised THEN line ELSE line + 1
        /\ UNCHANGED <<arg, length, n_qubits, handed, snap, calls, script, case, Q,
                       outcomes, Bob>>

\* q.H(0)
deutsch_H0_again ==
    /\ At_("deutsch", 4) /\ Stepped /\ DoH(0) /\ UNCHANGED <<outcomes, Bob>>

\* print(q.measure(0))
deutsch_measure ==
    /\ At_("deutsch", 5) /\ Stepped /\ UNCHANGED Bob
    /\ \E result \in {0, 1} :
        DoMeasure(0, result) /\ outcomes' = Append(outcomes, result)

----------------------------------------------------------------------------
(* src/demos/teleportation.py, for each unknown qubit.                     *)

A == Ints(<<1, 0>>)
B == Ints(<<1, 0>>)

\* state.H(0)
teleportation_H0 ==
    /\ At_("teleportation", 1) /\ Stepped /\ DoH(0) /\ UNCHANGED <<outcomes, Bob>>

\* state.CNOT(0, 1)
teleportation_CNOT ==
    /\ At_("teleportation", 2) /\ Stepped /\ DoCNOT(0, 1) /\ UNCHANGED <<outcomes, Bob>>

\* state.add_qubit(Q)
teleportation_add_qubit ==
    /\ At_("teleportation", 3) /\ Stepped /\ DoAddQubit(Q) /\ UNCHANGED <<outcomes, Bob>>

\* state.CNOT(0, 1)
teleportation_CNOT_again ==
    /\ At_("teleportation", 4) /\ Stepped /\ DoCNOT(0, 1) /\ UNCHANGED <<outcomes, Bob>>

\* state.H(0)
teleportation_H0_again ==
    /\ At_("teleportation", 5) /\ Stepped /\ DoH(0) /\ UNCHANGED <<outcomes, Bob>>

\* Q_measurement = state.measure(0)
teleportation_measure_Q ==
    /\ At_("teleportation", 6) /\ Stepped /\ UNCHANGED Bob
    /\ \E result \in {0, 1} :
        DoMeasure(0, result) /\ outcomes' = Append(outcomes, result)

\* A_measurement = state.measure(1)
teleportation_measure_A ==
    /\ At_("teleportation", 7) /\ Stepped /\ UNCHANGED Bob
    /\ \E result \in {0, 1} :
        DoMeasure(1, result) /\ outcomes' = Append(outcomes, result)

Q_measurement == outcomes[1]
A_measurement == outcomes[2]

\* if A_measurement == 1: state.X(2)
teleportation_X ==
    /\ At_("teleportation", 8) /\ Stepped /\ UNCHANGED <<outcomes, Bob>>
    /\ IF A_measurement = 1 THEN DoX(2)
       ELSE UNCHANGED <<pc, state, n_qubits, handed, alias, snap, last, meas>>

\* if Q_measurement == 1: state.Z(2)
teleportation_Z ==
    /\ At_("teleportation", 9) /\ Stepped /\ UNCHANGED <<outcomes, Bob>>
    /\ IF Q_measurement = 1 THEN DoZ(2)
       ELSE UNCHANGED <<pc, state, n_qubits, handed, alias, snap, last, meas>>

\* np.sum(a[:4]) and np.sum(a[4:]) of an array a
Halves(a) ==
    Arr(<<RSum(a.vec, 1..(IF Len(a.vec) < 4 THEN Len(a.vec) ELSE 4)),
          RSum(a.vec, 5..Len(a.vec))>>, a.s2)

\* B = np.array([np.sum(state.to_numpy()[:4]), np.sum(state.to_numpy()[4:])])
teleportation_isolate ==
    /\ At_("teleportation", 10) /\ Stepped /\ UNCHANGED outcomes
    /\ DoToNumpy
    /\ Bob' = Halves(state)

DemoInit ==
    \/ \E c \in Cases : Start("deutsch", Ints(<<0, 0, 1, 0>>), c, None)
    \/ \E q \in Unknowns : Start("teleportation", from_qubits(<<B, A>>), 0, q)

DemoNext ==
    \/ is_pow_of_2_while
    \/ is_pow_of_2_body
    \/ init
    \/ deutsch_H0
    \/ deutsch_H1
    \/ deutsch_U_f
    \/ deutsch_H0_again
    \/ deutsch_measure
    \/ teleportation_H0
    \/ teleportation_CNOT
    \/ teleportation_add_qubit
    \/ teleportation_CNOT_again
    \/ teleportation_H0_again
    \/ teleportation_measure_Q
    \/ teleportation_measure_A
    \/ teleportation_X
    \/ teleportation_Z
    \/ teleportation_isolate

DemoSpec == DemoInit /\ [][DemoNext]_vars

----------------------------------------------------------------------------
(* What the claims speak of.                                               *)

\* u * sqrt(s) = v * sqrt(t)
AmpEq(u, s, v, t) ==
    /\ RSign(u) = RSign(v)
    /\ QMul(s, QFromR(RMul(u, u))) = QMul(t, QFromR(RMul(v, v)))

\* the basis state of n qubits with amplitude 1 at basis index i
Basis(n, i) == Ints([k \in 1..Pow2(n) |-> IF k = i + 1 THEN 1 ELSE 0])

\* the bit of weight 2^k of i, and i with that bit flipped
BitOf(i, k) == (i \div Pow2(k)) % 2
Flipped(i, k) == IF BitOf(i, k) = 0 THEN i + Pow2(k) ELSE i - Pow2(k)

\* the bit of basis index i that measure(k) reads on an n-qubit array st
MeasuredBit(st, n, i, k) ==
    IF i \in get_qubit_indices(st, n, n - k - 1, 1) THEN 1 ELSE 0

InRange(k, n) == k \in 0..(n - 1)

\* the last call was a gate or a measurement with an index outside [0, n_qubits)
OutOfRangeCall ==
    \/ last.op \in {"X", "Z", "H", "measure"} /\ ~InRange(last.a, last.pre_n)
    \/ last.op = "CNOT" /\ (~InRange(last.a, last.pre_n) \/ ~InRange(last.b, last.pre_n))

\* is_pow_of_2 is in its loop
Looping == pc \in {"while", "body"}

----------------------------------------------------------------------------
(* C1.  From any state the constructor accepts, after every call of a      *)
(* sequence of X, Z, H, CNOT and measure calls whose qubit indices all lie *)
(* in [0, n_qubits), the squared magnitudes of the amplitudes sum to 1     *)
(* within 1e-5.                                                            *)
C1_Normalised ==
    (pc \in {"ready", "nan"} /\ last.valid) => (state # NaN /\ NormOK(state))

\* the same with control = target set aside, to tell what breaks C1
C1_DistinctOnly ==
    (pc \in {"ready", "nan"} /\ last.valid /\ ~(last.op = "CNOT" /\ last.a = last.b)
        /\ NormOK(last.pre))
        => (state # NaN /\ NormOK(state))

(* C3.  A call X(i), Z(i), H(i), CNOT(c, t) or measure(i) with a qubit     *)
(* index outside [0, n_qubits) fails with an error and leaves the          *)
(* statevector and n_qubits as they were.                                  *)
C3_OutOfRangeFails ==
    OutOfRangeCall => (last.raised /\ state = last.pre /\ n_qubits = last.pre_n)

(* C9.  The sequence to_numpy() handed out is a snapshot: no later X, Z,   *)
(* H, CNOT, measure or add_qubit call changes the values it holds.         *)
C9_Snapshot == handed # None => handed = snap

(* C6.  After measure(i), i in [0, n_qubits), returned b, every amplitude  *)
(* whose i-th bit differs from b is zero, and a later measure(i) reached   *)
(* through measure calls only returns b whatever the random draw.          *)
C6_Collapsed ==
    (last.op = "measure" /\ ~last.raised) =>
        /\ state # NaN
        /\ \A i \in 0..(Len(state.vec) - 1) :
              MeasuredBit(state, n_qubits, i, last.a) # last.result
                  => state.vec[i + 1] = RZero
        /\ last.prev # 0 - 1 => last.result = last.prev

\* the same on a vector that is normalised when measure is called
C6_FromNormalised ==
    (last.op = "measure" /\ ~last.raised /\ NormOK(last.pre)) =>
        /\ state # NaN
        /\ \A i \in 0..(Len(state.vec) - 1) :
              MeasuredBit(state, n_qubits, i, last.a) # last.result
                  => state.vec[i + 1] = RZero
        /\ last.prev # 0 - 1 => last.result = last.prev

(* C2 as stated.  Qubit index 0 is the most-significant bit of the basis   *)
(* index: on a basis state of N qubits, X(k) moves the amplitude to the    *)
(* index that differs in the k-th bit from the most-significant end only   *)
(* (weight 2^(N-1-k)), and measure(k) returns that bit.                    *)
C2_MostSignificantFirst ==
    \A i \in 0..(Pow2(last.pre_n) - 1) :
        (last.pre = Basis(last.pre_n, i) /\ InRange(last.a, last.pre_n)) =>
            /\ last.op = "X" =>
                  /\ ~last.raised
                  /\ state = Basis(last.pre_n, Flipped(i, last.pre_n - 1 - last.a))
            /\ last.op = "measure" =>
                  /\ ~last.raised
                  /\ last.result = BitOf(i, last.pre_n - 1 - last.a)

(* C2 as amended.  Qubit index 0 is the least-significant bit: X(k) moves  *)
(* the amplitude to the index that differs in the bit of weight 2^k only,  *)
(* and measure(k) returns that bit.                                        *)
C2_LeastSignificantFirst ==
    \A i \in 0..(Pow2(last.pre_n) - 1) :
        (last.pre = Basis(last.pre_n, i) /\ InRange(last.a, last.pre_n)) =>
            /\ last.op = "X" =>
                  /\ ~last.raised
                  /\ state = Basis(last.pre_n, Flipped(i, last.a))
            /\ last.op = "measure" =>
                  /\ ~last.raised
                  /\ last.result = BitOf(i, last.a)

\* X(0) has acted on the three-qubit basis state of index 3
C2_Witness ==
    /\ last.op = "X" /\ last.a = 0 /\ last.pre_n = 3
    /\ last.pre = Basis(3, 3)
    /\ state = Basis(3, 2)

(* C5.  For N >= 2 and distinct control, target in [0, N), adjacent or     *)
(* not, CNOT(control, target) moves the amplitude of each basis index      *)
(* whose control bit is 1 to the index with only the target bit flipped    *)
(* and leaves the others in place, the bits being those measure(control)   *)
(* and measure(target) read; the new vector is a permutation of the old.   *)
C5_Routed(i) ==
    IF MeasuredBit(last.pre, last.pre_n, i, last.a) = 1
    THEN CHOOSE j \in 0..(Len(last.pre.vec) - 1) :
            \A k \in 0..(last.pre_n - 1) :
                MeasuredBit(last.pre, last.pre_n, j, k) =
                    IF k = last.b THEN 1 - MeasuredBit(last.pre, last.pre_n, i, k)
                    ELSE MeasuredBit(last.pre, last.pre_n, i, k)
    ELSE i

C5_CNOT ==
    (/\ last.op = "CNOT"
     /\ last.pre_n >= 2
     /\ InRange(last.a, last.pre_n)
     /\ InRange(last.b, last.pre_n)
     /\ last.a # last.b) =>
        /\ ~last.raised
        /\ n_qubits = last.pre_n
        /\ Len(state.vec) = Len(last.pre.vec)
        /\ state.s2 = last.pre.s2
        /\ \A i \in 0..(Len(last.pre.vec) - 1) :
              state.vec[C5_Routed(i) + 1] = last.pre.vec[i + 1]
        /\ {C5_Routed(i) : i \in 0..(Len(last.pre.vec) - 1)} = 0..(Len(last.pre.vec) - 1)

\* CNOT(0, 2) has acted on three qubits whose eight amplitudes differ
C5_Witness ==
    /\ last.op = "CNOT" /\ last.a = 0 /\ last.b = 2 /\ last.pre_n = 3
    /\ ~last.raised
    /\ Cardinality({last.pre.vec[k] : k \in 1..8}) = 8
    /\ state # last.pre

(* C10.  add_qubit(other), other of length 2^m, on an N-qubit state: the   *)
(* vector becomes the Kronecker product (self, other) with self's bits the *)
(* higher-order ones, n_qubits = N + m, indices 0..m-1 address the added   *)
(* qubits, and the qubit index k addressed before is addressed by k + m.   *)
C10_AddQubit ==
    last.op = "add_qubit" =>
        LET N == last.pre_n
            other == last.other
            m == CHOOSE e \in 0..MaxQubits : Pow2(e) = Len(other.vec)
        IN  /\ n_qubits = N + m
            /\ Len(state.vec) = Pow2(N + m)
            /\ \A i \in 0..(Pow2(N) - 1), j \in 0..(Pow2(m) - 1) :
                  /\ AmpEq(state.vec[i * Pow2(m) + j + 1], state.s2,
                           RMul(last.pre.vec[i + 1], other.vec[j + 1]),
                           QMul(last.pre.s2, other.s2))
                  /\ \A k \in 0..(m - 1) :
                        MeasuredBit(state, n_qubits, i * Pow2(m) + j, k)
                            = MeasuredBit(other, m, j, k)
                  /\ \A k \in 0..(N - 1) :
                        MeasuredBit(state, n_qubits, i * Pow2(m) + j, k + m)
                            = MeasuredBit(last.pre, N, i, k)

\* a two-qubit sub-state has been added to a one-qubit state that differs
\* from it
C10_Witness ==
    /\ last.op = "add_qubit" /\ last.pre_n = 1 /\ n_qubits = 3
    /\ Len(last.other.vec) = 4
    /\ last.pre = Tilted

(* C4.  Constructing QuantumState(v) terminates for every length L >= 0    *)
(* (the loop of is_pow_of_2 is left), fails with an error whenever L is    *)
(* not a power of two (L = 0 included), and succeeds only when L = 2^N,    *)
(* and then n_qubits = N.                                                  *)
C4_Constructor ==
    /\ <>(~Looping)
    /\ [](last.op = "init" =>
            IF \E N \in 0..Len(arg.vec) : Pow2(N) = Len(arg.vec)
            THEN pc = "ready" => Pow2(n_qubits) = Len(arg.vec)
            ELSE pc = "raised")

\* the same for the lengths L >= 1, to tell what breaks C4
C4_FromLengthOne ==
    /\ (Len(arg.vec) >= 1) => <>(~Looping)
    /\ [](last.op = "init" =>
            IF \E N \in 0..Len(arg.vec) : Pow2(N) = Len(arg.vec)
            THEN pc = "ready" => Pow2(n_qubits) = Len(arg.vec)
            ELSE pc = "raised")

(* C7 as stated.  In the Deutsch sequence the final measure(0) returns 0   *)
(* when case = 1 and 1 when case = 4, for every random draw.               *)
C7_Case4Balanced ==
    (script = "deutsch" /\ line = 6) =>
        /\ case = 1 => outcomes = <<0>>
        /\ case = 4 => outcomes = <<1>>

(* C7 as amended.  The final measure(0) returns 0 when case = 1 and when   *)
(* case = 4 (U_f leaves the state alone, or applies X(1) only: the two     *)
(* constant oracles), and 1 when case = 2 or 3 (the oracles with the CNOT).*)
C7_Deutsch ==
    (script = "deutsch" /\ line = 6) =>
        /\ case \in {1, 4} => outcomes = <<0>>
        /\ case \in {2, 3} => outcomes = <<1>>

\* the sequence has run to its end with case = 4
C7_Witness ==
    /\ script = "deutsch" /\ line = 6 /\ case = 4
    /\ last.op = "measure" /\ last.result = 0

(* C8.  In the teleportation sequence, for each of the four outcome pairs  *)
(* (mQ, mA), Bob's two amplitudes (the sum of entries 0..3 and the sum of  *)
(* entries 4..7) equal the two amplitudes of the unknown qubit Q.          *)
C8_Teleported ==
    (script = "teleportation" /\ line = 11) =>
        /\ Len(Bob.vec) = 2
        /\ \A k \in 1..2 : AmpEq(Bob.vec[k], Bob.s2, Q.vec[k], Q.s2)

\* the script's own Q has been teleported with both corrections applied
C8_Witness ==
    /\ script = "teleportation" /\ line = 11
    /\ Q = Q_demo
    /\ outcomes = <<1, 1>>

====
